---- MODULE Spec2Model ----
(***************************************************************************)
(* IGCInfoViewer2: the track store and its HTTP handlers.                  *)
(*                                                                         *)
(* The repository holds two builds of the same service:                    *)
(*   "main"    src/main.go          ids come from the global idCounter     *)
(*   "trackdb" src/unnamed/part_000 ids come from TrackDB.Count()          *)
(* Both are modelled; the variable build says which one is running.        *)
(*                                                                         *)
(* Every handler runs in its own goroutine.  A handler is cut into steps   *)
(* at its accesses to shared state: one step per call on the collection    *)
(* (Find, Count, Insert, RemoveAll), per access to idCounter and per read  *)
(* of the clock.  Code that touches only the handler's locals belongs to   *)
(* the step of the shared access before it.                                *)
(***************************************************************************)
EXTENDS Integers, Sequences, FiniteSets, TLC

\* ---------------------------------------------------------------- bounds
NumProcs == 3         \* concurrent clients (SpecConc: one request each)
NumURLs == 3          \* distinct well-formed .igc URLs
MaxClock == 2         \* the clock's readings are 0..MaxClock
MaxFaults == 1        \* storage calls (Insert, RemoveAll) that may fail

\* ------------------------------------------------------ program constants
numTracksToShow == 5

Procs == 1..NumProcs
\* The client whose requests the log keeps, and the one client of the
\* specifications that send one request after the other.
Client == CHOOSE p \in Procs : \A q \in Procs : p <= q
Builds == {"main", "trackdb"}

VARIABLES
    build,       \* which build is running
    tracks,      \* the Tracks collection, in insertion (natural) order
    idCounter,   \* src/main.go: var idCounter int
    clock,       \* the last reading of time.Now()
    faults,      \* storage calls that have failed so far
    pc,          \* pc[p]: where client p's handler stands ("idle": none)
    req,         \* req[p]: the request client p sent last
    loc,         \* loc[p]: the locals of p's running handler
    resp,        \* resp[p]: the response to p's last request
    log,         \* the last two completed POST track / DELETE tracks requests
                 \* of the first client, latest last
    traversal    \* what the first client has got from the ticker pages, when
                 \* it walks the store page by page

vars == <<build, tracks, idCounter, clock, faults, pc, req, loc, resp, log, traversal>>

\* ------------------------------------------------------------------ data

\* A URL is <<ext, n>>: filepath.Ext of it and the rest of it, numbered;
\* <<"", 0>> is the empty string.
EmptyURL == <<"", 0>>
IgcURL(n) == <<".igc", n>>
TxtURL == <<".txt", 1>>
Ext(url) == url[1]
IgcURLs == {IgcURL(n) : n \in 1..NumURLs}

\* What igc.ParseLocation and the length loop yield for a URL.  The track
\* length is a number of units of 10^-7.
ParsedTrack(url) ==
    [Pilot |-> <<"pilot", url[2]>>, Glider |-> <<"glider", url[2]>>,
     GliderID |-> <<"glider_id", url[2]>>, HDate |-> <<"h_date", url[2]>>,
     TrackLength |-> 7 * url[2]]

\* A stored document.  Its Pilot, Glider, GliderID, HDate and TrackLength
\* are ParsedTrack(URL), and are not stored a second time.
trackInfo(id, url, ts) == [ID |-> id, URL |-> url, TimeStamp |-> ts]

Min(S) == CHOOSE x \in S : \A y \in S : x <= y

\* A lookup that never finds the URL.
FindByURL_NotFound(coll, url) == 0

\* Query.One(): the position of the first matching document, 0 for
\* mgo.ErrNotFound.
FindByURL(coll, url) ==
    LET S == {i \in 1..Len(coll) : coll[i].URL = url}
    IN  IF S = {} THEN 0 ELSE Min(S)

FindByID(coll, id) ==
    LET S == {i \in 1..Len(coll) : coll[i].ID = id}
    IN  IF S = {} THEN 0 ELSE Min(S)

FindByTimeStamp(coll, ts) ==
    LET S == {i \in 1..Len(coll) : coll[i].TimeStamp = ts}
    IN  IF S = {} THEN 0 ELSE Min(S)

\* Collection.Count()
Count == Len(tracks)

\* ids := make([]int, n); ids[i] = i
IdRange(n) == [i \in 1..(IF n > 0 THEN n ELSE 0) |-> i - 1]

\* ------------------------------------------------------------- responses

NoText == <<"", 0>>
NoResp ==
    [status |-> 0, kind |-> "none", id |-> -1, ids |-> <<>>, text |-> NoText,
     t_latest |-> -1, t_start |-> -1, t_stop |-> -1, panicked |-> FALSE]

\* c.JSON(http.StatusOK, gin.H{"id": id})
RespID(id) == [NoResp EXCEPT !.status = 200, !.kind = "id", !.id = id]
\* c.JSON(http.StatusOK, ids)
RespIDs(ids) == [NoResp EXCEPT !.status = 200, !.kind = "ids", !.ids = ids]
\* c.String(http.StatusOK, text)
RespText(text) == [NoResp EXCEPT !.status = 200, !.kind = "text", !.text = text]
\* c.String(http.StatusOK, strconv.Itoa(n))
RespInt(n) == [NoResp EXCEPT !.status = 200, !.kind = "int", !.id = n]
\* c.JSON(http.StatusBadRequest, gin.H{"error": ...})
RespBadRequest == [NoResp EXCEPT !.status = 400, !.kind = "error"]
\* c.Status(http.StatusNotFound)
RespNotFound == [NoResp EXCEPT !.status = 404, !.kind = "empty"]
\* The handler returns having written nothing: gin answers 200, no body.
RespNothing == [NoResp EXCEPT !.status = 200, !.kind = "empty"]
\* panic(...) before anything was written: gin's Recovery answers 500.
RespPanic == [NoResp EXCEPT !.status = 500, !.kind = "empty", !.panicked = TRUE]

\* ------------------------------------------------------ requests, locals

NoReq ==
    [op |-> "none", body |-> "none", url |-> EmptyURL, id |-> <<"int", 0>>,
     field |-> "", param |-> 0, n0 |-> 0]

\* The :param of GET /api/ticker/:param is the word "latest" or a
\* timestamp; timestamps are clock readings, and Latest stands for the word.
Latest == -1

NoLoc ==
    [id |-> -1, ts |-> -1, err |-> FALSE, respid |-> -1, tmp |-> -1,
     numDeleted |-> -1, n |-> -1, all |-> <<>>, show |-> <<>>,
     t_latest |-> -1, parsed |-> FALSE, inserted |-> FALSE]

\* The log entry of a completed request: what was asked (rq), what the
\* handler did (lc), what was answered (r) and the number of stored
\* records when the request arrived (n0) and when it was answered (n1).
LogEntry(rq, lc, r, n1) ==
    [op |-> rq.op, url |-> rq.url, status |-> r.status, kind |-> r.kind,
     id |-> r.id, panicked |-> r.panicked, parsed |-> lc.parsed,
     inserted |-> lc.inserted, err |-> lc.err, n0 |-> rq.n0, n1 |-> n1]

\* The log keeps the last completed POST track or DELETE tracks and the
\* one before it.  Of the one before, only an ingestion answered with an id and a completed DELETE
\* are kept as they were; anything else is kept as "other".
NoEntry ==
    [op |-> "other", url |-> EmptyURL, status |-> 0, kind |-> "none", id |-> -1,
     panicked |-> FALSE, parsed |-> FALSE, inserted |-> FALSE, err |-> FALSE,
     n0 |-> 0, n1 |-> 0]

Older(e) ==
    IF e.op \in {"post_track", "delete_tracks"} /\ e.status = 200 /\ e.kind \in {"id", "int"}
    THEN e ELSE NoEntry

Push(l, e) == <<Older(l[2]), e>>

\* A client that walks the store with the ticker keeps the ids of the
\* pages it has got ("tracks"), the t_stop and the t_latest of the last
\* page; on is whether the first client is such a client.
NoTraversal == [on |-> FALSE, ids |-> {}, t_stop |-> -1, t_latest |-> -1]
Visit(tr, r) ==
    IF tr.on /\ r.kind = "page"
    THEN [tr EXCEPT !.ids = @ \cup {r.ids[k] : k \in 1..Len(r.ids)},
                    !.t_stop = r.t_stop, !.t_latest = r.t_latest]
    ELSE tr

Init ==
    /\ build \in Builds
    /\ tracks = <<>>
    /\ idCounter = 0
    /\ clock = 0
    /\ faults = 0
    /\ pc = [p \in Procs |-> "idle"]
    /\ req = [p \in Procs |-> NoReq]
    /\ loc = [p \in Procs |-> NoLoc]
    /\ resp = [p \in Procs |-> NoResp]
    /\ log = <<NoEntry, NoEntry>>
    /\ traversal = NoTraversal

\* ----------------------------------------------------- control transfer

\* The handler of client p goes on to the step named label.
Goto(p, rq, lc, label) ==
    /\ pc' = [pc EXCEPT ![p] = label]
    /\ req' = [req EXCEPT ![p] = rq]
    /\ loc' = [loc EXCEPT ![p] = lc]
    /\ resp' = [resp EXCEPT ![p] = NoResp]
    /\ UNCHANGED <<log, traversal>>

\* The handler of client p ends and r is the response the client gets.
Done(p, rq, lc, r, n1) ==
    /\ pc' = [pc EXCEPT ![p] = "idle"]
    /\ req' = [req EXCEPT ![p] = rq]
    /\ loc' = [loc EXCEPT ![p] = NoLoc]
    /\ resp' = [resp EXCEPT ![p] = r]
    /\ log' = IF p = Client /\ rq.op \in {"post_track", "delete_tracks"}
              THEN Push(log, LogEntry(rq, lc, r, n1)) ELSE log
    /\ traversal' = IF p = Client THEN Visit(traversal, r) ELSE traversal

NewReq(op) == [NoReq EXCEPT !.op = op, !.n0 = Len(tracks)]

\* time.Now(): the clock never goes backwards; two readings may be equal.
Readings == {t \in {clock, clock + 1} : t <= MaxClock}

\* Whether a storage call may fail now.
Outcomes == IF faults < MaxFaults THEN {TRUE, FALSE} ELSE {TRUE}

\* ------------------------------------------------- POST /api/track

\* The request bodies: not JSON at all, JSON without a string "url", and
\* {"url": url}.
Bodies(urls) ==
    {<<"malformed", EmptyURL>>, <<"nokey", EmptyURL>>} \cup {<<"url", u>> : u \in urls}

\* BindJSON, the two checks of url, and the lookup of an existing track.
PostTrack(p, b) ==
    LET rq == [NewReq("post_track") EXCEPT !.body = b[1], !.url = b[2]]
        url == b[2]
        i == FindByURL(tracks, url)
    IN  /\ pc[p] = "idle"
        /\ UNCHANGED <<build, tracks, idCounter, clock, faults>>
        /\ IF b[1] = "nokey"
           THEN \* json["url"].(string) on a missing key panics
                Done(p, rq, NoLoc, RespPanic, Len(tracks))
           ELSE IF url = EmptyURL
           THEN Done(p, rq, NoLoc, RespBadRequest, Len(tracks))
           ELSE IF Ext(url) # ".igc"
           THEN Done(p, rq, NoLoc, RespBadRequest, Len(tracks))
           ELSE IF i # 0
           THEN Done(p, rq, NoLoc, RespID(tracks[i].ID), Len(tracks))
           ELSE Goto(p, rq, NoLoc, "post_parse")

\* The same, but a record is stored before the parse and stays when the
\* parse fails.
PostParse_StoresFirst(p) ==
    /\ pc[p] = "post_parse"
    /\ UNCHANGED <<build, idCounter, clock, faults>>
    /\ \E ok \in BOOLEAN :
         LET lc == [loc[p] EXCEPT !.parsed = TRUE]
         IN  IF ok
             THEN /\ tracks' = tracks
                  /\ Goto(p, req[p], lc, IF build = "main" THEN "post_id" ELSE "post_count")
             ELSE /\ tracks' = Append(tracks, trackInfo(Len(tracks), req[p].url, clock))
                  /\ Done(p, req[p], lc, RespNothing, Len(tracks) + 1)

\* track, err := igc.ParseLocation(url); if err != nil { return }
PostParse(p) ==
    /\ pc[p] = "post_parse"
    /\ UNCHANGED <<build, tracks, idCounter, clock, faults>>
    /\ \E ok \in BOOLEAN :
         LET lc == [loc[p] EXCEPT !.parsed = TRUE]
         IN  IF ok
             THEN Goto(p, req[p], lc, IF build = "main" THEN "post_id" ELSE "post_count")
             ELSE Done(p, req[p], lc, RespNothing, Len(tracks))

\* src/main.go: ID: idCounter
PostReadID(p) ==
    /\ pc[p] = "post_id"
    /\ build = "main"
    /\ UNCHANGED <<build, tracks, idCounter, clock, faults>>
    /\ Goto(p, req[p], [loc[p] EXCEPT !.id = idCounter], "post_now")

\* id := db.Count() + 1
PostCount_OffByOne(p) ==
    /\ pc[p] = "post_count"
    /\ build = "trackdb"
    /\ UNCHANGED <<build, tracks, idCounter, clock, faults>>
    /\ Goto(p, req[p], [loc[p] EXCEPT !.id = Count + 1], "post_now")

\* part_000: id := db.Count()
PostCount(p) ==
    /\ pc[p] = "post_count"
    /\ build = "trackdb"
    /\ UNCHANGED <<build, tracks, idCounter, clock, faults>>
    /\ Goto(p, req[p], [loc[p] EXCEPT !.id = Count], "post_now")

\* TimeStamp: time.Now().String()
PostNow(p) ==
    /\ pc[p] = "post_now"
    /\ UNCHANGED <<build, tracks, idCounter, faults>>
    /\ \E t \in Readings :
         /\ clock' = t
         /\ Goto(p, req[p], [loc[p] EXCEPT !.ts = t], "post_insert")

\* err = collection.Insert(trackInfo{...}); part_000 panics on err and
\* answers with id otherwise, src/main.go goes on with err in hand.
PostInsert(p) ==
    /\ pc[p] = "post_insert"
    /\ UNCHANGED <<build, idCounter, clock>>
    /\ \E ok \in Outcomes :
         LET lc == [loc[p] EXCEPT !.err = ~ok, !.inserted = ok]
             stored == IF ok
                       THEN Append(tracks, trackInfo(loc[p].id, req[p].url, loc[p].ts))
                       ELSE tracks
         IN  /\ tracks' = stored
             /\ faults' = IF ok THEN faults ELSE faults + 1
             /\ IF build = "main"
                THEN Goto(p, req[p], lc, "post_respond")
                ELSE IF ok
                THEN Done(p, req[p], lc, RespID(loc[p].id), Len(stored))
                ELSE Done(p, req[p], lc, RespPanic, Len(stored))

\* src/main.go: c.JSON(http.StatusOK, gin.H{"id": idCounter})
PostRespond(p) ==
    /\ pc[p] = "post_respond"
    /\ UNCHANGED <<build, tracks, idCounter, clock, faults>>
    /\ Goto(p, req[p], [loc[p] EXCEPT !.respid = idCounter], "post_inc_read")

\* src/main.go: idCounter++ is a read and a write, with no lock held.
PostIncRead(p) ==
    /\ pc[p] = "post_inc_read"
    /\ UNCHANGED <<build, tracks, idCounter, clock, faults>>
    /\ Goto(p, req[p], [loc[p] EXCEPT !.tmp = idCounter], "post_inc_write")

\* The write of idCounter++, then if err != nil { panic(err) }: the 200
\* and the id are written already, so they are what the client gets.
PostIncWrite(p) ==
    /\ pc[p] = "post_inc_write"
    /\ UNCHANGED <<build, tracks, clock, faults>>
    /\ idCounter' = loc[p].tmp + 1
    /\ Done(p, req[p], loc[p],
            [RespID(loc[p].respid) EXCEPT !.panicked = loc[p].err], Len(tracks))

\* ------------------------------------------- DELETE /admin/api/tracks

\* src/main.go: numDeleted := idCounter
\* part_000:    numDeleted := db.Count(); if numDeleted == 0 { return 0 }
DeleteTracks(p) ==
    LET rq == NewReq("delete_tracks")
    IN  /\ pc[p] = "idle"
        /\ UNCHANGED <<build, tracks, idCounter, clock, faults>>
        /\ IF build = "main"
           THEN Goto(p, rq, [NoLoc EXCEPT !.numDeleted = idCounter], "del_reset")
           ELSE IF Count = 0
           THEN Done(p, rq, NoLoc, RespInt(0), Len(tracks))
           ELSE Goto(p, rq, [NoLoc EXCEPT !.numDeleted = Count], "del_remove")

\* The same without idCounter = 0.
DeleteReset_NoReset(p) ==
    /\ pc[p] = "del_reset"
    /\ UNCHANGED <<build, tracks, idCounter, clock, faults>>
    /\ IF loc[p].numDeleted # 0
       THEN Goto(p, req[p], loc[p], "del_remove")
       ELSE Done(p, req[p], loc[p], RespInt(loc[p].numDeleted), Len(tracks))

\* src/main.go: idCounter = 0; if numDeleted != 0 { RemoveAll }
DeleteReset(p) ==
    /\ pc[p] = "del_reset"
    /\ UNCHANGED <<build, tracks, clock, faults>>
    /\ idCounter' = 0
    /\ IF loc[p].numDeleted # 0
       THEN Goto(p, req[p], loc[p], "del_remove")
       ELSE Done(p, req[p], loc[p], RespInt(loc[p].numDeleted), Len(tracks))

\* _, err := RemoveAll(bson.M{}); if err != nil { panic(err) }; the answer
\* is numDeleted.
DeleteRemoveAll(p) ==
    /\ pc[p] = "del_remove"
    /\ UNCHANGED <<build, idCounter, clock>>
    /\ \E ok \in Outcomes :
         /\ tracks' = IF ok THEN <<>> ELSE tracks
         /\ faults' = IF ok THEN faults ELSE faults + 1
         /\ IF ok
            THEN Done(p, req[p], loc[p], RespInt(loc[p].numDeleted), 0)
            ELSE Done(p, req[p], loc[p], RespPanic, Len(tracks))

\* ------------------------------ GET /api/track, GET /admin/api/track_count

\* The number of tracks as the build knows it: idCounter, or db.Count().
NumTracks == IF build = "main" THEN idCounter ELSE Count

\* ids := make([]int, n); for i := range ids { ids[i] = i }
GetTracks(p) ==
    /\ pc[p] = "idle"
    /\ UNCHANGED <<build, tracks, idCounter, clock, faults>>
    /\ Done(p, NewReq("get_tracks"), NoLoc, RespIDs(IdRange(NumTracks)), Len(tracks))

GetTrackCount(p) ==
    /\ pc[p] = "idle"
    /\ UNCHANGED <<build, tracks, idCounter, clock, faults>>
    /\ Done(p, NewReq("track_count"), NoLoc, RespInt(NumTracks), Len(tracks))

\* ------------------------------------------------------------- GET /api

\* fmtDurationAsISO8601, for a duration of whole seconds that is not
\* negative: the six numbers that Sprintf puts into
\* "P%dY%dM%dDT%dH%dM%dS", in that order.
fmtDurationAsISO8601(duration) ==
    LET days == duration \div 86400              \* int64(duration.Hours() / 24)
        years == days \div 365
        months == years \div 12
        hours == (duration \div 3600) % 24       \* int64(math.Mod(duration.Hours(), 24))
        minutes == (duration \div 60) % 60       \* int64(math.Mod(duration.Minutes(), 60))
        seconds == duration % 60                 \* int64(math.Mod(duration.Seconds(), 60))
    IN  <<years, months, days, hours, minutes, seconds>>

\* c.JSON(http.StatusOK, gin.H{"uptime": getUptime(), "info": ..., "version": ...})
RespUptime(uptime) == [NoResp EXCEPT !.status = 200, !.kind = "uptime", !.ids = uptime]

\* GET /api: getUptime() is fmtDurationAsISO8601(time.Since(startTime)); the
\* clock read (kept in the request's param) is the time since startTime.
GetAPI(p) ==
    LET rq == [NewReq("api") EXCEPT !.param = clock]
    IN  /\ pc[p] = "idle"
        /\ UNCHANGED <<build, tracks, idCounter, clock, faults>>
        /\ Done(p, rq, NoLoc, RespUptime(fmtDurationAsISO8601(clock)), Len(tracks))

\* ------------------------- GET /api/track/:id, GET /api/track/:id/:field

\* strconv.Atoi: <<"int", n>> is the decimal text of n, anything else is
\* no number.
Atoi(a) == IF a[1] = "int" THEN [val |-> a[2], err |-> FALSE] ELSE [val |-> 0, err |-> TRUE]

\* getAndValidateID: src/main.go also rejects id >= idCounter.
getAndValidateID(a) ==
    IF Atoi(a).err THEN [id |-> 0, err |-> TRUE]
    ELSE IF build = "main" /\ Atoi(a).val >= idCounter THEN [id |-> 0, err |-> TRUE]
    ELSE [id |-> Atoi(a).val, err |-> FALSE]

\* strconv.FormatFloat(x, 'f', 6, 64): x, in units of 10^-7, rounded to the
\* nearest multiple of 10^-6 (to the even one when halfway).
FormatFloat(x) ==
    LET q == x \div 10
        r == x % 10
    IN  <<"%.6f", IF r < 5 THEN q
                  ELSE IF r > 5 THEN q + 1
                  ELSE IF q % 2 = 0 THEN q ELSE q + 1>>

\* The same with a default case that yields "", true.
getFieldByName_NoDefault(t, fieldName) ==
    CASE fieldName = "pilot" -> [val |-> ParsedTrack(t.URL).Pilot, ok |-> TRUE]
      [] fieldName = "glider" -> [val |-> ParsedTrack(t.URL).Glider, ok |-> TRUE]
      [] fieldName = "glider_id" -> [val |-> ParsedTrack(t.URL).GliderID, ok |-> TRUE]
      [] fieldName = "H_date" -> [val |-> ParsedTrack(t.URL).HDate, ok |-> TRUE]
      [] fieldName = "calculated total track length" ->
            [val |-> FormatFloat(ParsedTrack(t.URL).TrackLength), ok |-> TRUE]
      [] fieldName = "track_src_url" -> [val |-> t.URL, ok |-> TRUE]
      [] fieldName = "timestamp" -> [val |-> <<"timestamp", t.TimeStamp>>, ok |-> TRUE]
      [] OTHER -> [val |-> NoText, ok |-> TRUE]

\* trackInfo.getFieldByName
getFieldByName(t, fieldName) ==
    CASE fieldName = "pilot" -> [val |-> ParsedTrack(t.URL).Pilot, ok |-> TRUE]
      [] fieldName = "glider" -> [val |-> ParsedTrack(t.URL).Glider, ok |-> TRUE]
      [] fieldName = "glider_id" -> [val |-> ParsedTrack(t.URL).GliderID, ok |-> TRUE]
      [] fieldName = "H_date" -> [val |-> ParsedTrack(t.URL).HDate, ok |-> TRUE]
      [] fieldName = "calculated total track length" ->
            [val |-> FormatFloat(ParsedTrack(t.URL).TrackLength), ok |-> TRUE]
      [] fieldName = "track_src_url" -> [val |-> t.URL, ok |-> TRUE]
      [] fieldName = "timestamp" -> [val |-> <<"timestamp", t.TimeStamp>>, ok |-> TRUE]
      [] OTHER -> [val |-> NoText, ok |-> FALSE]

\* c.JSON(http.StatusOK, gin.H{"H_date": ..., "track_src_url": ...})
RespTrack(t) == [NoResp EXCEPT !.status = 200, !.kind = "track", !.text = t.URL]

\* id, err := getAndValidateID(c); 404 on err.  field = "" is the
\* request without /:field.
GetTrack(p, a, field) ==
    LET rq == [NewReq(IF field = "" THEN "get_track" ELSE "get_field")
                   EXCEPT !.id = a, !.field = field]
        v == getAndValidateID(a)
    IN  /\ pc[p] = "idle"
        /\ UNCHANGED <<build, tracks, idCounter, clock, faults>>
        /\ IF v.err
           THEN Done(p, rq, NoLoc, RespNotFound, Len(tracks))
           ELSE Goto(p, rq, [NoLoc EXCEPT !.id = v.id], "get_find")

\* getTrackByID / TrackDB.GetTrackByID panic when Find(...).One fails.
GetTrackByID(p) ==
    LET i == FindByID(tracks, loc[p].id)
        f == getFieldByName(tracks[i], req[p].field)
    IN  /\ pc[p] = "get_find"
        /\ UNCHANGED <<build, tracks, idCounter, clock, faults>>
        /\ IF i = 0
           THEN Done(p, req[p], loc[p], RespPanic, Len(tracks))
           ELSE IF req[p].op = "get_track"
           THEN Done(p, req[p], loc[p], RespTrack(tracks[i]), Len(tracks))
           ELSE IF ~f.ok
           THEN Done(p, req[p], loc[p], RespNotFound, Len(tracks))
           ELSE Done(p, req[p], loc[p], RespText(f.val), Len(tracks))

\* ------------------------------------------------------ GET /api/ticker

\* src/main.go answers GET /api/ticker (and, after its lookups, GET
\* /api/ticker/<timestamp>) with fixed explanatory strings.
RespPlaceholder(t_latest) ==
    [NoResp EXCEPT !.status = 200, !.kind = "placeholder", !.t_latest = t_latest]

\* The ticker of part_000: t_latest, t_start, t_stop, tracks.
RespPage(t_latest, show) ==
    [NoResp EXCEPT !.status = 200, !.kind = "page",
                   !.ids = [i \in 1..Len(show) |-> show[i].ID],
                   !.t_latest = t_latest,
                   !.t_start = show[1].TimeStamp,
                   !.t_stop = show[Len(show)].TimeStamp]

\* part_000 GET /ticker:
\*   numTracksToShow := 5; if len(tracks) < 5 { numTracksToShow = len(tracks) }
\*   tracksToShow := tracks[len(tracks)-numTracksToShow : len(tracks)]
FirstPage(all) ==
    LET n == IF Len(all) < numTracksToShow THEN Len(all) ELSE numTracksToShow
    IN  SubSeq(all, Len(all) - n + 1, Len(all))

\* The window that starts after the matched record: rangeMin := idOfQuery + 1
CursorPage_After(all, idOfQuery) ==
    LET rangeMin == idOfQuery + 1
        rangeMax == IF idOfQuery + 1 + numTracksToShow > Len(all)
                    THEN Len(all) ELSE idOfQuery + 1 + numTracksToShow
    IN  [panic |-> rangeMin > rangeMax, show |-> SubSeq(all, rangeMin + 1, rangeMax)]

\* part_000 GET /ticker/<timestamp>:
\*   rangeMin := idOfQuery; rangeMax := idOfQuery + 5, at most len(tracks)
\*   tracksToShow := tracks[rangeMin:rangeMax]
CursorPage(all, idOfQuery) ==
    LET rangeMin == idOfQuery
        rangeMax == IF idOfQuery + numTracksToShow > Len(all)
                    THEN Len(all) ELSE idOfQuery + numTracksToShow
    IN  [panic |-> rangeMin > rangeMax, show |-> SubSeq(all, rangeMin + 1, rangeMax)]

\* GET /api/ticker: collection.Find(bson.M{}).All(&tracks) and the window.
GetTicker(p) ==
    LET rq == NewReq("ticker")
    IN  /\ pc[p] = "idle"
        /\ UNCHANGED <<build, tracks, idCounter, clock, faults>>
        /\ IF build = "main"
           THEN Done(p, rq, NoLoc, RespPlaceholder(-1), Len(tracks))
           ELSE Goto(p, rq, [NoLoc EXCEPT !.all = tracks, !.show = FirstPage(tracks)],
                     "latest_count")

\* GET /api/ticker/:param.  "latest": the number of tracks is read
\* (idCounter, or db.Count() in GetLatestTrack).  Otherwise: Find(bson.M{}).All.
GetTickerParam(p, param) ==
    LET rq == [NewReq(IF param = Latest THEN "ticker_latest" ELSE "ticker_cursor")
                   EXCEPT !.param = param]
    IN  /\ pc[p] = "idle"
        /\ UNCHANGED <<build, tracks, idCounter, clock, faults>>
        /\ IF param = Latest
           THEN Goto(p, rq, [NoLoc EXCEPT !.n = NumTracks], "latest_find")
           ELSE Goto(p, rq, [NoLoc EXCEPT !.all = tracks],
                     IF build = "main" THEN "cursor_latest" ELSE "cursor_find")

\* part_000: Find(bson.M{"timestamp": inputTimestamp}).One(&track), 404 on
\* err; idOfQuery := tracks[track.ID].ID; the window.
CursorFind(p) ==
    LET i == FindByTimeStamp(tracks, req[p].param)
        all == loc[p].all
        track == tracks[i]
        page == CursorPage(all, all[track.ID + 1].ID)
    IN  /\ pc[p] = "cursor_find"
        /\ build = "trackdb"
        /\ UNCHANGED <<build, tracks, idCounter, clock, faults>>
        /\ IF i = 0
           THEN Done(p, req[p], loc[p], RespNotFound, Len(tracks))
           ELSE IF track.ID < 0 \/ track.ID >= Len(all)
           THEN \* index out of range
                Done(p, req[p], loc[p], RespPanic, Len(tracks))
           ELSE IF page.panic
           THEN \* slice bounds out of range
                Done(p, req[p], loc[p], RespPanic, Len(tracks))
           ELSE Goto(p, req[p], [loc[p] EXCEPT !.show = page.show], "latest_count")

\* TrackDB.GetLatestTrack: db.Count()
LatestCount(p) ==
    /\ pc[p] = "latest_count"
    /\ UNCHANGED <<build, tracks, idCounter, clock, faults>>
    /\ Goto(p, req[p], [loc[p] EXCEPT !.n = Count], "latest_find")

\* Find(bson.M{"id": n - 1}).One(&latestTrack), panic on err; then the
\* answer: the timestamp alone for "latest", else the ticker, whose
\* tracksToShow[0] panics on an empty window.
LatestFind(p) ==
    LET i == FindByID(tracks, loc[p].n - 1)
        show == loc[p].show
    IN  /\ pc[p] = "latest_find"
        /\ UNCHANGED <<build, tracks, idCounter, clock, faults>>
        /\ IF i = 0
           THEN Done(p, req[p], loc[p], RespPanic, Len(tracks))
           ELSE IF req[p].op = "ticker_latest"
           THEN Done(p, req[p], loc[p],
                     RespText(<<"timestamp", tracks[i].TimeStamp>>), Len(tracks))
           ELSE IF show = <<>>
           THEN Done(p, req[p], loc[p], RespPanic, Len(tracks))
           ELSE Done(p, req[p], loc[p], RespPage(tracks[i].TimeStamp, show), Len(tracks))

\* src/main.go: latestAddedTrackTimestamp := tracks[idCounter-1].TimeStamp
CursorLatestMain(p) ==
    LET all == loc[p].all
    IN  /\ pc[p] = "cursor_latest"
        /\ build = "main"
        /\ UNCHANGED <<build, tracks, idCounter, clock, faults>>
        /\ IF idCounter - 1 < 0 \/ idCounter - 1 >= Len(all)
           THEN Done(p, req[p], loc[p], RespPanic, Len(tracks))
           ELSE Goto(p, req[p], [loc[p] EXCEPT !.t_latest = all[idCounter].TimeStamp],
                     "cursor_find_main")

\* src/main.go: Find(bson.M{"timestamp": inputTimestamp}).One(&track);
\* if err != nil { panic(err) }; the answer is not complete.
CursorFindMain(p) ==
    /\ pc[p] = "cursor_find_main"
    /\ UNCHANGED <<build, tracks, idCounter, clock, faults>>
    /\ IF FindByTimeStamp(tracks, req[p].param) = 0
       THEN Done(p, req[p], loc[p], RespPanic, Len(tracks))
       ELSE Done(p, req[p], loc[p], RespPlaceholder(loc[p].t_latest), Len(tracks))

\* ------------------------------------------------------- specifications

\* The inputs of the requests.
IDParams == {<<"abc", 0>>} \cup {<<"int", n>> : n \in -1..(NumURLs + MaxFaults)}
FieldParams ==
    {"", "pilot", "glider", "glider_id", "H_date", "calculated total track length",
     "track_src_url", "timestamp", "id"}
TickerParams == {Latest} \cup 0..(MaxClock + 1)

PostSteps(p) ==
    \/ PostParse(p)
    \/ PostReadID(p)
    \/ PostCount(p)
    \/ PostNow(p)
    \/ PostInsert(p)
    \/ PostRespond(p)
    \/ PostIncRead(p)
    \/ PostIncWrite(p)

DeleteSteps(p) ==
    \/ DeleteReset(p)
    \/ DeleteRemoveAll(p)

TickerSteps(p) ==
    \/ CursorFind(p)
    \/ LatestCount(p)
    \/ LatestFind(p)
    \/ CursorLatestMain(p)
    \/ CursorFindMain(p)

\* One client, one request at a time.  URLs are compared for equality and
\* nothing else, so a POST of a URL that is not stored carries the first
\* such URL.
Stored == {tracks[i].URL : i \in 1..Len(tracks)}
FreshURLs(n) == LET F == {i \in 1..n : IgcURL(i) \notin Stored}
                IN  IF F = {} THEN {} ELSE {IgcURL(Min(F))}
SeqURLs == Stored \cup FreshURLs(NumURLs) \cup {EmptyURL, TxtURL}

\* The ticker's pages hold numTracksToShow ids: its store grows to one
\* record more than a page.
NumTickerURLs == numTracksToShow + 1

\* Ingestion, clearing and listing, one request after the other.
Next ==
    \/ \E b \in Bodies(SeqURLs) : PostTrack(Client, b)
    \/ DeleteTracks(Client)
    \/ GetTracks(Client)
    \/ GetTrackCount(Client)
    \/ PostSteps(Client)
    \/ DeleteSteps(Client)

Spec == Init /\ [][Next]_vars

\* Ingestion (of URLs that are not stored), clearing and the lookups by
\* id, one request after the other.
NextGet ==
    \/ \E u \in FreshURLs(NumURLs) : PostTrack(Client, <<"url", u>>)
    \/ DeleteTracks(Client)
    \/ \E a \in IDParams, f \in FieldParams : GetTrack(Client, a, f)
    \/ GetTrackByID(Client)
    \/ PostSteps(Client)
    \/ DeleteSteps(Client)

SpecGet == Init /\ [][NextGet]_vars

\* Ingestion (of URLs that are not stored) and GET track/<id>/<field> for
\* the ids a store can hold, one request after the other; the store only
\* grows.
StoredIDParams == {<<"int", n>> : n \in 0..(NumURLs - 1)}
NextField ==
    \/ \E u \in FreshURLs(NumURLs) : PostTrack(Client, <<"url", u>>)
    \/ \E a \in StoredIDParams, f \in FieldParams \ {""} : GetTrack(Client, a, f)
    \/ GetTrackByID(Client)
    \/ PostSteps(Client)

SpecField == Init /\ [][NextField]_vars

\* Ingestion (of URLs that are not stored), clearing and the ticker, one
\* request after the other.
NextTicker ==
    \/ \E u \in FreshURLs(NumTickerURLs) : PostTrack(Client, <<"url", u>>)
    \/ DeleteTracks(Client)
    \/ GetTicker(Client)
    \/ \E param \in TickerParams : GetTickerParam(Client, param)
    \/ TickerSteps(Client)
    \/ PostSteps(Client)
    \/ DeleteSteps(Client)

SpecTicker == Init /\ [][NextTicker]_vars

\* GET /api at some time after the start: the clock counts the whole
\* seconds since startTime, days of UptimeDays and some time of the day.
UptimeDays == {0, 1, 29, 30, 31, 59, 364, 365, 400, 730, 4379, 4380, 4745}
Elapsed ==
    {((d * 24 + h) * 60 + m) * 60 + sec :
        d \in UptimeDays, h \in {0, 23}, m \in {0, 59}, sec \in {0, 59}}
InitUptime ==
    /\ build \in Builds
    /\ tracks = <<>>
    /\ idCounter = 0
    /\ clock \in Elapsed
    /\ faults = 0
    /\ pc = [p \in Procs |-> "idle"]
    /\ req = [p \in Procs |-> NoReq]
    /\ loc = [p \in Procs |-> NoLoc]
    /\ resp = [p \in Procs |-> NoResp]
    /\ log = <<NoEntry, NoEntry>>
    /\ traversal = NoTraversal

NextUptime == GetAPI(Client)

SpecUptime == InitUptime /\ [][NextUptime]_vars

\* A client walks a store of part_000 that nobody writes to: GET ticker,
\* then again and again GET ticker/<t_stop of the page before>.  The store
\* holds 1 to MaxStored records, ingested one after the other at the
\* increasing times that stamps lists.
MaxStored == numTracksToShow + 2
Stamps == 0..MaxStored
Increasing(stamps) == \A i \in 1..(Len(stamps) - 1) : stamps[i] < stamps[i + 1]
InitTraverse ==
    /\ build = "trackdb"
    /\ \E n \in 1..MaxStored :
         \E stamps \in [1..n -> Stamps] :
             /\ Increasing(stamps)
             /\ tracks = [i \in 1..n |-> trackInfo(i - 1, IgcURL(i), stamps[i])]
             /\ clock = stamps[n]
    /\ idCounter = 0
    /\ faults = 0
    /\ pc = [p \in Procs |-> "idle"]
    /\ req = [p \in Procs |-> NoReq]
    /\ loc = [p \in Procs |-> NoLoc]
    /\ resp = [p \in Procs |-> NoResp]
    /\ log = <<NoEntry, NoEntry>>
    /\ traversal = [NoTraversal EXCEPT !.on = TRUE]

NextTraverse ==
    \/ /\ req[Client] = NoReq
       /\ GetTicker(Client)
    \/ /\ traversal.t_stop # -1
       /\ GetTickerParam(Client, traversal.t_stop)
    \/ CursorFind(Client)
    \/ LatestCount(Client)
    \/ LatestFind(Client)

SpecTraverse == InitTraverse /\ [][NextTraverse]_vars

\* NumProcs clients, one request each, all running at once: ingestions
\* (of one of two URLs) and clears.  The clients are numbered in the order
\* in which their requests arrive.
ConcURLs == {IgcURL(1), IgcURL(2)}
NextConc ==
    \E p \in Procs :
        \/ /\ req[p] = NoReq
           /\ \A q \in 1..(p - 1) : req[q] # NoReq
           /\ \/ \E u \in ConcURLs : PostTrack(p, <<"url", u>>)
              \/ DeleteTracks(p)
        \/ PostSteps(p)
        \/ DeleteSteps(p)

SpecConc == Init /\ [][NextConc]_vars

\* ================================================================ claims

Quiescent == \A p \in Procs : pc[p] = "idle"
Last == log[2]
Prev == log[1]
LastReq == req[Client]
LastResp == resp[Client]
IDs(coll) == [i \in 1..Len(coll) |-> coll[i].ID]
\* The ids m, m+1, ..., n-1 in order.
FromTo(m, n) == [i \in 1..(IF n > m THEN n - m ELSE 0) |-> m + i - 1]
\* The stored records with a given URL, id, timestamp (their positions).
WithURL(u) == {i \in 1..Len(tracks) : tracks[i].URL = u}
WithID(id) == {i \in 1..Len(tracks) : tracks[i].ID = id}
WithTimeStamp(t) == {i \in 1..Len(tracks) : tracks[i].TimeStamp = t}
Dense == \A i \in 1..Len(tracks) : tracks[i].ID = i - 1
Least(n, m) == IF n < m THEN n ELSE m

\* C1 (concurrent ingestion safety): once N >= 2 clients that POSTed the
\* same URL at once have all been answered with an id (no clear, no storage
\* failure), the store holds exactly one record with that URL and every
\* answer carries that record's id.
C1_Posters(u) == {p \in Procs : req[p].op = "post_track" /\ req[p].url = u}
C1_ConcurrentIngestionSafety ==
    \A u \in ConcURLs :
        (/\ Quiescent
         /\ faults = 0
         /\ \A p \in Procs : req[p].op \in {"none", "post_track"}
         /\ Cardinality(C1_Posters(u)) >= 2
         /\ \A p \in C1_Posters(u) : resp[p].status = 200 /\ resp[p].kind = "id")
        => /\ Cardinality(WithURL(u)) = 1
           /\ \A p \in C1_Posters(u) : \A i \in WithURL(u) : resp[p].id = tracks[i].ID

\* C2 (idempotent ingestion): when a URL is ingested and answered with an
\* id, and the next ingestion (no DELETE tracks in between) is of the same
\* URL, the second answer carries
\* the same id, the second call neither parses nor inserts, and the store
\* holds one record more than before the first call if the first call
\* inserted (none more if it found the URL stored).
C2_Twice ==
    /\ pc[Client] = "idle"
    /\ Prev.op = "post_track" /\ Prev.status = 200 /\ Prev.kind = "id" /\ ~Prev.panicked
    /\ Last.op = "post_track" /\ Last.url = Prev.url
C2_IdempotentIngestion ==
    C2_Twice =>
        /\ Last.status = 200 /\ Last.kind = "id" /\ Last.id = Prev.id
        /\ ~Last.parsed /\ ~Last.inserted
        /\ Prev.inserted => Len(tracks) = Prev.n0 + 1 /\ Last.n1 = Prev.n0 + 1
        /\ ~Prev.inserted => Len(tracks) = Prev.n0
C2_Witness == C2_Twice /\ Prev.inserted /\ Prev.id = 1 /\ Len(tracks) = 2

\* C3 (id density): while no storage call has failed, the stored ids are
\* 0, 1, ..., k-1 in insertion order, an ingestion that inserts is answered
\* with the number of records stored before it, and GET track answers
\* [0, 1, ..., k-1].
C3_IdDensity ==
    (pc[Client] = "idle" /\ faults = 0) =>
        /\ IDs(tracks) = FromTo(0, Len(tracks))
        /\ (Last.op = "post_track" /\ Last.inserted) =>
               /\ Last.status = 200 /\ Last.kind = "id"
               /\ Last.id = Last.n0 /\ Last.n1 = Last.n0 + 1
        /\ LastReq.op = "get_tracks" =>
               LastResp.status = 200 /\ LastResp.ids = FromTo(0, Len(tracks))
C3_Witness ==
    /\ pc[Client] = "idle" /\ faults = 0 /\ Len(tracks) = NumURLs
    /\ LastReq.op = "get_tracks" /\ LastResp.ids = FromTo(0, NumURLs)
    /\ Last.op = "post_track" /\ Last.inserted /\ Last.id = NumURLs - 1

\* C4 (pagination without cursor): for a store of n >= 1 records GET ticker
\* of part_000 answers with the oldest records: ids 0..min(n,5)-1, t_start
\* and t_stop the timestamps of the first and the last of them.
C4_FirstPageOldest ==
    (/\ pc[Client] = "idle" /\ build = "trackdb" /\ LastReq.op = "ticker"
     /\ Len(tracks) >= 1 /\ Dense) =>
        /\ LastResp.status = 200 /\ LastResp.kind = "page"
        /\ LastResp.ids = FromTo(0, Least(Len(tracks), numTracksToShow))
        /\ LastResp.t_start = tracks[1].TimeStamp
        /\ LastResp.t_stop = tracks[Least(Len(tracks), numTracksToShow)].TimeStamp

\* C5 (pagination with cursor).  The page of GET ticker/{cursor} that
\* starts at the record m: ids m..min(m+5,n)-1, t_start and t_stop the
\* timestamps of the first and the last of them.
C5_PageFrom(m) ==
    LET n == Len(tracks)
        hi == Least(m + numTracksToShow, n)
    IN  /\ LastResp.status = 200 /\ LastResp.kind = "page"
        /\ LastResp.ids = FromTo(m, hi)
        /\ LastResp.t_start = tracks[m + 1].TimeStamp
        /\ LastResp.t_stop = tracks[hi].TimeStamp
C5_Asked ==
    /\ pc[Client] = "idle" /\ build = "trackdb" /\ LastReq.op = "ticker_cursor"
    /\ Dense
C6_FirstAfterCursor ==
    (/\ pc[Client] = "idle" /\ build = "trackdb" /\ LastReq.op = "ticker_cursor"
     /\ LastResp.kind = "page") =>
        /\ LastResp.t_start > LastReq.param
        /\ \A i \in WithID(LastResp.ids[1]) : tracks[i].TimeStamp > LastReq.param

\* C7 (cursor not found): GET ticker/{cursor} with a cursor that is the
\* timestamp of no stored record is answered 404, with no window and no
\* panic.
C7_CursorNotFound ==
    (/\ pc[Client] = "idle" /\ LastReq.op = "ticker_cursor"
     /\ WithTimeStamp(LastReq.param) = {}) =>
        /\ LastResp.status = 404 /\ LastResp.kind = "empty" /\ ~LastResp.panicked

\* C8 (clear resets sequence): while no storage call has failed, a
\* completed DELETE tracks leaves the store empty, and an ingestion that
\* follows it and inserts is given id 0.
C8_ClearResetsSequence ==
    (pc[Client] = "idle" /\ faults = 0) =>
        /\ (Last.op = "delete_tracks" /\ Last.status = 200) => tracks = <<>>
        /\ (/\ Prev.op = "delete_tracks" /\ Prev.status = 200
            /\ Last.op = "post_track" /\ Last.inserted) =>
               /\ Last.status = 200 /\ Last.kind = "id" /\ Last.id = 0
               /\ IDs(tracks) = <<0>>
C8_Witness ==
    /\ pc[Client] = "idle" /\ faults = 0
    /\ Prev.op = "delete_tracks" /\ Prev.status = 200 /\ Prev.id = 2
    /\ Last.op = "post_track" /\ Last.inserted /\ Last.url = IgcURL(1) /\ Last.id = 0

\* C9 (unknown id gives NotFound): GET track/{id} and GET
\* track/{id}/{field} with an id that is no number or the id of no stored
\* record are answered 404 with an empty body, without a panic.
C9_UnknownIdNotFound ==
    (/\ pc[Client] = "idle" /\ LastReq.op \in {"get_track", "get_field"}
     /\ (Atoi(LastReq.id).err \/ WithID(Atoi(LastReq.id).val) = {})) =>
        /\ LastResp.status = 404 /\ LastResp.kind = "empty" /\ ~LastResp.panicked

\* C10 (storage error on insert is surfaced): when Insert fails (the first
\* storage call to fail), the client gets no success response with an id,
\* no record is stored, and the id is not used up (the build's next id is
\* still the number of stored records, as it was before the call).
C10_InsertErrorSurfaced ==
    (/\ pc[Client] = "idle" /\ Last.op = "post_track" /\ Last.err
     /\ faults = 1) =>
        /\ ~(Last.status = 200 /\ Last.kind = "id")
        /\ Last.n1 = Last.n0 /\ Len(tracks) = Last.n0
        /\ NumTracks = Len(tracks)

\* C11 (empty-store paging): on an empty store GET ticker (part_000; the
\* one of src/main.go answers fixed strings) and GET ticker/latest end with
\* an error result of their own, not with a panic out of a lookup of id -1
\* or out of an index past the end of the records.
C11_EmptyStorePaging ==
    (/\ pc[Client] = "idle" /\ tracks = <<>> /\ LastReq.n0 = 0
     /\ \/ LastReq.op = "ticker_latest"
        \/ LastReq.op = "ticker" /\ build = "trackdb") =>
        /\ ~LastResp.panicked
        /\ LastResp.status \notin {0, 500}

\* C12 (parse failure is reported): an ingestion of a well-formed URL that
\* is not stored and whose igc.ParseLocation fails is answered with an
\* error status.
C12_ParseFailed ==
    /\ pc[Client] = "idle" /\ Last.op = "post_track"
    /\ Last.parsed /\ ~Last.inserted /\ ~Last.err
C12_ParseFailureReported ==
    C12_ParseFailed => Last.status >= 400 /\ Last.kind = "error"

\* C13 (invalid input is rejected first): a POST track whose body has no
\* url (no JSON, no key "url", the empty string) or a url whose extension
\* is not ".igc" is answered 400, and neither the parser nor Insert runs.
C13_InvalidInputRejected ==
    (/\ pc[Client] = "idle" /\ Last.op = "post_track"
     /\ (Last.url = EmptyURL \/ Ext(Last.url) # ".igc")) =>
        /\ Last.status = 400 /\ Last.kind = "error"
        /\ ~Last.parsed /\ ~Last.inserted
        /\ Last.n1 = Last.n0

\* C14 (latest timestamp): whenever the store is not empty, GET
\* ticker/latest answers the timestamp of the record inserted last, and
\* the t_latest of a ticker answer (GET ticker of part_000, GET
\* ticker/{timestamp} of both builds) is that timestamp too.
C14_Newest == tracks[Len(tracks)].TimeStamp
C14_LatestTimestamp ==
    (pc[Client] = "idle" /\ Len(tracks) >= 1) =>
        /\ LastReq.op = "ticker_latest" =>
               LastResp = RespText(<<"timestamp", C14_Newest>>)
        /\ (LastReq.op = "ticker" /\ build = "trackdb") =>
               LastResp.kind = "page" /\ LastResp.t_latest = C14_Newest
        /\ (LastReq.op = "ticker_cursor" /\ WithTimeStamp(LastReq.param) # {}) =>
               /\ LastResp.kind \in {"page", "placeholder"}
               /\ LastResp.t_latest = C14_Newest

\* C15 (field projection): GET track/<id>/<field> for the id of a stored
\* record answers 404 with an empty body when the field name is none of the
\* seven recognized names, and otherwise the text of that field of that
\* record (the track length with six decimals).  In src/main.go the id is
\* also checked against idCounter, which is the number of stored records
\* while no storage call has failed.
C15_Recognized ==
    {"pilot", "glider", "glider_id", "H_date", "calculated total track length",
     "track_src_url", "timestamp"}
C15_Field(t, name) ==
    CASE name = "pilot" -> ParsedTrack(t.URL).Pilot
      [] name = "glider" -> ParsedTrack(t.URL).Glider
      [] name = "glider_id" -> ParsedTrack(t.URL).GliderID
      [] name = "H_date" -> ParsedTrack(t.URL).HDate
      [] name = "calculated total track length" ->
             FormatFloat(ParsedTrack(t.URL).TrackLength)
      [] name = "track_src_url" -> t.URL
      [] name = "timestamp" -> <<"timestamp", t.TimeStamp>>
C15_Asked ==
    /\ pc[Client] = "idle" /\ LastReq.op = "get_field"
    /\ ~Atoi(LastReq.id).err /\ WithID(Atoi(LastReq.id).val) # {}
    /\ (build = "trackdb" \/ faults = 0)
C15_FieldProjection ==
    C15_Asked =>
        \A i \in WithID(Atoi(LastReq.id).val) :
            IF LastReq.field \in C15_Recognized
            THEN LastResp = RespText(C15_Field(tracks[i], LastReq.field))
            ELSE LastResp = RespNotFound
C15_Witness ==
    /\ C15_Asked /\ LastReq.id = <<"int", 1>>
    /\ LastReq.field = "calculated total track length"
    /\ LastResp.status = 200 /\ LastResp.text = <<"%.6f", 1>>

\* C16 (DELETE tracks counts what it removed): whenever a DELETE tracks
\* handler ends with a 200, the integer it answers is the number of records
\* its step took out of the store.  (The handler of part_000 that finds the
\* store empty answers 0 at once and removes nothing.)
C16_DeleteEnds(p) ==
    /\ pc[p] \in {"del_reset", "del_remove"}
    /\ pc'[p] = "idle"
    /\ resp'[p].status = 200
C16_DeleteCountsRemoved ==
    [][\A p \in Procs :
           C16_DeleteEnds(p) =>
               /\ resp'[p].kind = "int"
               /\ resp'[p].id = Len(tracks) - Len(tracks')]_vars

\* C17 (unique ids under concurrent ingestion): while the clients ingest
\* pairwise distinct URLs at once (no DELETE tracks, no failed storage
\* call), no two stored records have the same id, and the id of every
\* record is the number of records that were stored before it.
C17_DistinctPosts ==
    /\ \A p \in Procs : req[p].op \in {"none", "post_track"}
    /\ \A p, q \in Procs :
           (p # q /\ req[p].op = "post_track" /\ req[q].op = "post_track")
               => req[p].url # req[q].url
C17_UniqueIdsConcurrent ==
    (C17_DistinctPosts /\ faults = 0) =>
        /\ \A i, j \in 1..Len(tracks) : i # j => tracks[i].ID # tracks[j].ID
        /\ Dense

\* C18 (failed ingestions leave no partial state): the steps of an
\* ingestion that is rejected (400) or whose parse fails, from its arrival
\* to its end, leave the stored records, their number and idCounter as they
\* were.
C18_Arrives == pc[Client] = "idle" /\ pc'[Client] = "post_parse"
C18_EndsFailed ==
    /\ pc[Client] \in {"idle", "post_parse"}
    /\ log' # log
    /\ log'[2].op = "post_track"
    /\ \/ log'[2].status = 400
       \/ log'[2].parsed /\ ~log'[2].inserted /\ ~log'[2].err
C18_NoPartialState ==
    [][(C18_Arrives \/ C18_EndsFailed) =>
           /\ tracks' = tracks
           /\ Len(tracks') = Len(tracks)
           /\ idCounter' = idCounter
           /\ (C18_EndsFailed => log'[2].n1 = log'[2].n0)]_vars
C18_Witness ==
    /\ pc[Client] = "idle" /\ Last.op = "post_track"
    /\ Last.parsed /\ ~Last.inserted /\ ~Last.err
    /\ Len(tracks) = 2 /\ Last.n0 = 2 /\ Last.n1 = 2 /\ NumTracks = 2

\* C19 (timestamp order matches id order): with one client sending its
\* requests one after the other, of any two stored records the one with
\* the lower id has no later timestamp.
C19_TimestampOrder ==
    \A i, j \in 1..Len(tracks) :
        tracks[i].ID < tracks[j].ID => tracks[i].TimeStamp <= tracks[j].TimeStamp

\* C20 (uptime is a duration decomposition): the numbers Y, M, D, h, m, s
\* of the uptime string satisfy M < 12, h < 24, m < 60, s < 60, D is less
\* than a month (of some length L of 28 to 31 days), and Y years of 365
\* days, M months of L days, D days, h hours, m minutes and s seconds add
\* up to the time since the start.
C20_Recomposes(f, L, elapsed) ==
    /\ f[3] < L
    /\ (((f[1] * 365 + f[2] * L + f[3]) * 24 + f[4]) * 60 + f[5]) * 60 + f[6] = elapsed
C20_UptimeDecomposition ==
    (pc[Client] = "idle" /\ LastReq.op = "api") =>
        LET f == LastResp.ids
        IN  /\ LastResp.status = 200 /\ Len(f) = 6
            /\ f[2] < 12 /\ f[4] < 24 /\ f[5] < 60 /\ f[6] < 60
            /\ \E L \in 28..31 : C20_Recomposes(f, L, LastReq.param)

\* C21 (src/main.go: idCounter is the number of records): whenever no
\* request is in flight, idCounter equals the number of stored records,
\* and so every id that GET track lists is the id of a stored record.
C21_IdCounterIsCount ==
    (build = "main" /\ Quiescent) =>
        /\ idCounter = Len(tracks)
        /\ LastReq.op = "get_tracks" =>
               \A k \in 1..Len(LastResp.ids) : WithID(LastResp.ids[k]) # {}

\* C22 (part_000: ids stay below the count): under any interleaving of
\* ingestions and DELETE tracks, the id of every stored record is less than
\* the number of stored records (so that tracks[track.ID] and
\* tracks[rangeMin:rangeMax] of GET ticker/<timestamp> stay in range).
C22_IdsBelowCount ==
    build = "trackdb" =>
        \A i \in 1..Len(tracks) : tracks[i].ID >= 0 /\ tracks[i].ID < Len(tracks)

\* C23 (cursor traversal covers the whole store): when a client that
\* walks a store of pairwise distinct timestamps - GET ticker, then GET
\* ticker/<t_stop of the page before>, with no write meanwhile - has got a
\* page whose t_stop is t_latest, the ids of the pages it has got are the
\* ids of all stored records.
C23_AtLatest ==
    /\ traversal.on /\ pc[Client] = "idle"
    /\ traversal.t_stop # -1 /\ traversal.t_stop = traversal.t_latest
C23_TraversalCovers ==
    C23_AtLatest => traversal.ids = {tracks[i].ID : i \in 1..Len(tracks)}

====
